---- MODULE Spec2Model ----
(***************************************************************************)
(* The event-to-action dispatch loop of job-tracker (src/src/app.rs) with  *)
(* the components it registers (JobList, EditJob and the search::Home      *)
(* component).  One drain iteration of App::handle_actions is one step, so *)
(* that the order in which queued actions are applied is visible.          *)
(*                                                                         *)
(* Conventions.  Rust's Vec indices are 0-based; the registry below is a   *)
(* TLA+ sequence, so component indices are 1-based (index i here is index  *)
(* i-1 in app.rs).  Option<T> is a sequence of length 0 or 1.  A panic     *)
(* (unwrap on None, slice out of range) ends the run in pc = "panic".      *)
(***************************************************************************)
EXTENDS Integers, Sequences, FiniteSets, TLC

VARIABLES
    pc,                      \* position of App::run: "events", "actions", "suspended", "done", "panic"
    mode,                    \* App.mode
    current_mode_components, \* App.current_mode_components
    should_quit,             \* App.should_quit
    should_suspend,          \* App.should_suspend
    last_tick_key_events,    \* App.last_tick_key_events
    queue,                   \* the unbounded channel action_tx / action_rx
    keybindings,             \* App.config.keybindings
    term_h,                  \* height of the terminal as the driver reports it
    job_list,                \* the JobList component's fields
    edit_job,                \* the EditJob component's fields
    last_change_mode,        \* history: mode carried by the last ChangeMode dequeued
    last_event,              \* history: the raw event handle_events consumed last
    evt_log,                 \* history: components given last_event, in call order
    last_action,             \* history: the action dequeued last
    upd_log,                 \* history: components whose update got last_action, in call order
    draw_log,                \* history: components drawn by the last dequeued action
    matched,                 \* history: what App::handle_key_event did with the last key
    fired,                   \* history: key sequences whose binding fired since the last Tick was applied
    draw_saw,                \* history: the component state handed to the last render
    draw_failed,             \* history: components whose draw returned Err in the last render
    focus_hist,              \* history: EditJob's focus over its latest key presses
    suspend_seen             \* history: a Suspend was applied since the terminal was last released

vars == <<pc, mode, current_mode_components, should_quit, should_suspend,
          last_tick_key_events, queue, keybindings, term_h, job_list, edit_job,
          last_change_mode, last_event, evt_log, last_action, upd_log, draw_log,
          matched, fired, draw_saw, draw_failed, focus_hist, suspend_seen>>

----------------------------------------------------------------------------
(* Bounds of the model. *)

\* Longest key-sequence buffer explored (the Vec itself is unbounded): under
\* the default bindings, and under the keymaps that bind chords.
MaxBuf == 2
MaxChordBuf == 3

\* Longest key-sequence buffer explored while EditJob's focus is followed.
MaxFocusBuf == 1

\* Longest key-sequence buffer explored while the job list is navigated.
MaxRowBuf == 1

\* Largest job count and largest number of visible rows for which the
\* scroll window is computed.
MaxJobs == 7
MaxVisible == 4

\* Longest run of consecutive focus advances that is counted (one more than
\* the number of fields, so that a full cycle and one more step are seen).
MaxRun == 13

----------------------------------------------------------------------------
(* Values. *)

\* enum Mode.  app.rs declares Home and EditJob; JobList and NotesPopup also
\* construct Mode::Popup("notes_popup").
Modes == {"Home", "EditJob", "Popup"}

Act(t) == [t |-> t, m |-> "-", n |-> 0]
ChangeMode(md) == [t |-> "ChangeMode", m |-> md, n |-> 0]
Resize(h) == [t |-> "Resize", m |-> "-", n |-> h]
JobResults(n) == [t |-> "JobResults", m |-> "-", n |-> n]

None == <<>>
Some(x) == <<x>>

\* tui::Event as App::handle_events matches it.
Ev(t) == [t |-> t, k |-> "-", n |-> 0]
KeyEv(k) == [t |-> "Key", k |-> k, n |-> 0]
ResizeEv(h) == [t |-> "Resize", k |-> "-", n |-> h]
MouseEv(kind, n) == [t |-> "Mouse", k |-> kind, n |-> n]

\* Key presses.  A key is a (code, modifiers) pair of kind Press:
\* "CtrlQ" is Char('q') + CONTROL, "BackTab" carries SHIFT, the others carry
\* no modifier; "a", "b", "c" are plain characters.
ComponentKeys == {"CtrlQ", "Enter", "Esc", "Tab", "a"}
ChordKeys == {"a", "b", "c"}

\* Terminal heights the driver reports (rows).
TermHeights == {29}

\* The six records App::handle_job_search delivers.
NumTestJobs == 6

\* Field::len()
FieldLen == 12

----------------------------------------------------------------------------
(* Key bindings. *)

\* KeyBindings::default(): Ctrl-q quits.
DefaultKeyBindings == (<<"CtrlQ">> :> Act("Quit"))

\* Other keymaps a Config can hold (KeyBindings is a HashMap<Vec<KeyEvent>, Action>):
\* a single key that is also the prefix of a chord, a two-key chord, and a
\* three-key chord that extends it.
ChordBindingsA ==
    (<<"a">> :> Act("Help")) @@ (<<"a", "b">> :> Act("Quit")) @@
    (<<"b", "c">> :> Act("Suspend")) @@ (<<"b", "c", "b">> :> ChangeMode("EditJob"))

ChordBindingsB ==
    (<<"c">> :> Act("Suspend")) @@ (<<"b", "a">> :> ChangeMode("Popup")) @@
    (<<"a", "a">> :> Act("Quit")) @@ (<<"a", "b">> :> ChangeMode("Home"))

KeyMaps == {DefaultKeyBindings, ChordBindingsA, ChordBindingsB}

\* A keymap that binds a key to the search request.
SearchBindings == DefaultKeyBindings @@ (<<"r">> :> Act("DispatchJobSearch"))

\* A keymap that binds a key JobList and EditJob also react to.
EnterBindings == DefaultKeyBindings @@ (<<"Enter">> :> Act("Help"))

\* HashMap::get
KeymapGet(km, keys) == IF keys \in DOMAIN km THEN Some(km[keys]) ELSE None

----------------------------------------------------------------------------
(* The channel. *)

Send_front(q, actions) == actions \o q

\* UnboundedSender::send: the messages arrive behind those already queued.
Send(q, actions) == q \o actions

----------------------------------------------------------------------------
(* Component registry. *)

\* App::new: vec![Home, JobList, EditJob]
components == <<"Home", "JobList", "EditJob">>

\* search::Home is not among the sources; it is taken to own the default mode
\* and to keep the Component trait's default (inert) handlers.
Home_mode == "Home"
JobList_mode == "Home"
EditJob_mode == "EditJob"

ComponentMode(idx) ==
    CASE components[idx] = "Home" -> Home_mode
      [] components[idx] = "JobList" -> JobList_mode
      [] components[idx] = "EditJob" -> EditJob_mode

RECURSIVE CollectFrom_rev(_, _)
CollectFrom_rev(idx, md) ==
    IF idx > Len(components) THEN <<>>
    ELSE CollectFrom_rev(idx + 1, md) \o (IF ComponentMode(idx) = md THEN <<idx>> ELSE <<>>)

\* for (idx, component) in components.iter().enumerate() { if component.mode() == mode { push(idx) } }
RECURSIVE CollectFrom(_, _)
CollectFrom(idx, md) ==
    IF idx > Len(components) THEN <<>>
    ELSE (IF ComponentMode(idx) = md THEN <<idx>> ELSE <<>>) \o CollectFrom(idx + 1, md)

ModeComponents(md) == CollectFrom(1, md)

----------------------------------------------------------------------------
(* JobList. *)

\* JobList::new; jobs is the number of loaded records, area the height of
\* the Rect stored by draw (None before the first draw).
JobList_new ==
    [jobs |-> 0, visible_start_index |-> 0, selected_index |-> 0,
     focused_field |-> -1, area |-> None, notes_popup_visible |-> FALSE]

Min(a, b) == IF a < b THEN a ELSE b
SatSub(a, b) == IF a > b THEN a - b ELSE 0

\* The sub-fields of a row: FocusedField's variants Status (0) .. CoverLetter (5).
NumSubFields == 6

\* FocusedField::from(i8)
FocusedField_from(v) == IF v >= 0 /\ v <= 5 THEN v ELSE -1

get_visible_jobs_no_clamp(jl, height) ==
    LET num_visible == height \div 8
        selected == jl.selected_index
        jobs_len == jl.jobs
    IN IF jobs_len > num_visible
       THEN IF num_visible = 1 THEN selected
            ELSE IF selected >= num_visible \div 2
                 THEN selected + 1 - num_visible \div 2
                 ELSE 0
       ELSE 0

\* JobList::get_visible_jobs
get_visible_jobs(jl, height) ==
    LET num_visible == height \div 8
        selected == jl.selected_index
        jobs_len == jl.jobs
    IN IF jobs_len > num_visible
       THEN IF num_visible = 1 THEN selected
            ELSE IF selected >= num_visible \div 2
                 THEN Min(selected + 1 - num_visible \div 2, SatSub(jobs_len, num_visible))
                 ELSE 0
       ELSE 0

JobList_row_down_wrap(jl) ==
    IF jl.selected_index + 1 < jl.jobs THEN jl.selected_index + 1 ELSE 0

\* The Tab, Down and ScrollDown arms: if selected_index + 1 < jobs.len() { selected_index += 1 }
JobList_row_down(jl) ==
    IF jl.selected_index + 1 < jl.jobs THEN jl.selected_index + 1 ELSE jl.selected_index

\* The BackTab, Up and ScrollUp arms: if selected_index > 0 { selected_index -= 1 }
JobList_row_up(jl) ==
    IF jl.selected_index > 0 THEN jl.selected_index - 1 ELSE jl.selected_index

\* The Right arm: if (focused_field as i8) < 4 { focused_field += 1 }
JobList_field_right(f) == IF f < 4 THEN FocusedField_from(f + 1) ELSE f

\* The Left arm: if focused_field as i8 > 0 { focused_field -= 1 }
JobList_field_left(f) == IF f > 0 THEN FocusedField_from(f - 1) ELSE f

\* JobList::handle_key_event.  Result: the component, the actions sent
\* through command_tx followed by the returned one, and whether it panicked.
\* Up and Down recompute the window start when they moved the selection and
\* an area has been stored; Tab and BackTab leave it as it is.
JobList_handle_key_event(jl, key) ==
    LET moved(n) == [jl EXCEPT !.selected_index = n]
        recentred(n) ==
            IF n = jl.selected_index THEN jl
            ELSE IF jl.area # None
                 THEN [moved(n) EXCEPT !.visible_start_index =
                                           get_visible_jobs(moved(n), jl.area[1])]
                 ELSE moved(n)
        quiet(s) == [s |-> s, sent |-> <<>>, panic |-> FALSE]
    IN CASE key = "Tab" -> quiet(moved(JobList_row_down(jl)))
         [] key = "BackTab" -> quiet(moved(JobList_row_up(jl)))
         [] key = "Enter" ->
              [s |-> jl, sent |-> <<ChangeMode("EditJob")>>, panic |-> FALSE]
         [] key = "Esc" ->
              [s |-> jl,
               sent |-> <<ChangeMode("Popup"), Act("DispatchNotesPopupData")>>,
               panic |-> FALSE]
         [] key = "Up" -> quiet(recentred(JobList_row_up(jl)))
         [] key = "Down" -> quiet(recentred(JobList_row_down(jl)))
         [] key = "Right" ->
              quiet([jl EXCEPT !.focused_field = JobList_field_right(@)])
         [] key = "Left" ->
              quiet([jl EXCEPT !.focused_field = JobList_field_left(@)])
         [] OTHER -> quiet(jl)

\* A pointer position as JobList sees it: the index of the row region of
\* JobList::layout that contains it (an index past the last region: none
\* does), the part of JobItem::layout within the row (0 info, 1 notes,
\* 2 fields) and the line within the row.
ItemParts == 3
RowHeight == 8
PointerAt(i, j, r) == (i * ItemParts + j) * RowHeight + r
PointerRegion(n) == n \div (ItemParts * RowHeight)
PointerPart(n) == (n \div RowHeight) % ItemParts
PointerLine(n) == n % RowHeight

\* JobItem::handle_mouse_moved_in_region: the sub-field focus after the
\* pointer moved within a row of height RowHeight.
handle_mouse_moved_in_region(f, n) ==
    LET rel == PointerLine(n)
        relative_row == IF rel = 0 THEN 1 ELSE rel - 1
        field_height == SatSub(RowHeight, 2) \div 4
    IN CASE PointerPart(n) = 1 -> 1
         [] PointerPart(n) = 2 -> FocusedField_from(relative_row \div field_height)
         [] OTHER -> f

\* JobList::handle_mouse_event.  ScrollUp and ScrollDown recompute the window
\* start whenever an area is stored.  Moved unwraps self.area, assigns
\* selected_index = visible_start_index + i for the region i that holds the
\* pointer and then indexes self.jobs[selected_index].
JobList_handle_mouse_event(jl, kind, n) ==
    LET scrolled(sel) ==
            LET m == [jl EXCEPT !.selected_index = sel]
            IN IF jl.area # None
               THEN [m EXCEPT !.visible_start_index = get_visible_jobs(m, jl.area[1])]
               ELSE m
        quiet(s) == [s |-> s, sent |-> <<>>, panic |-> FALSE]
    IN CASE kind = "ScrollUp" -> quiet(scrolled(JobList_row_up(jl)))
         [] kind = "ScrollDown" -> quiet(scrolled(JobList_row_down(jl)))
         [] kind = "Moved" ->
              IF jl.area = None THEN [s |-> jl, sent |-> <<>>, panic |-> TRUE]
              ELSE IF PointerRegion(n) < jl.area[1] \div RowHeight
                   THEN LET sel == jl.visible_start_index + PointerRegion(n)
                        IN IF sel >= jl.jobs
                           THEN [s |-> [jl EXCEPT !.selected_index = sel],
                                 sent |-> <<>>, panic |-> TRUE]
                           ELSE quiet([jl EXCEPT
                                         !.selected_index = sel,
                                         !.focused_field = handle_mouse_moved_in_region(@, n)])
                   ELSE quiet(jl)
         [] OTHER -> quiet(jl)

\* JobList::handle_events
JobList_handle_events(jl, ev) ==
    CASE ev.t = "Key" -> JobList_handle_key_event(jl, ev.k)
      [] ev.t = "Mouse" -> JobList_handle_mouse_event(jl, ev.k, ev.n)
      [] OTHER -> [s |-> jl, sent |-> <<>>, panic |-> FALSE]

\* JobList::update
JobList_update(jl, action) ==
    LET search == IF jl.jobs = 0 THEN <<Act("DispatchJobSearch")>> ELSE <<>>
    IN CASE action.t = "JobResults" ->
              [s |-> [jl EXCEPT !.jobs = action.n], sent |-> search, panic |-> FALSE]
         [] action.t = "NotesPopupData" ->
              [s |-> [jl EXCEPT !.notes_popup_visible = FALSE], sent |-> search,
               panic |-> jl.jobs = 0]
         [] OTHER -> [s |-> jl, sent |-> search, panic |-> FALSE]

\* JobList::draw: stores the inner area (frame height less the margin of 2
\* on either side and the top border) and slices jobs[visible_start_index..end].
JobList_draw(jl, frame_h) ==
    LET height == SatSub(SatSub(frame_h, 4), 1)
        end == Min(jl.visible_start_index + height \div 8, jl.jobs)
    IN [s |-> [jl EXCEPT !.area = Some(height)], sent |-> <<>>,
        panic |-> jl.visible_start_index > end]

----------------------------------------------------------------------------
(* EditJob. *)

\* EditJob::new
EditJob_new == [focused_field |-> 0, focused_updated |-> FALSE]

\* Field::from(i8)
Field_from(v) == IF v >= -1 /\ v <= 11 THEN v ELSE -1

\* The Tab and Enter arms: self.focused_field += 1; if focused_field as i8 > Field::len() { Position }
EditJob_advance(f) ==
    LET nf == Field_from(f + 1) IN IF nf > FieldLen THEN 0 ELSE nf

EditJob_retreat_wrap_len(f) ==
    LET nf == Field_from(f - 1) IN IF nf < 0 THEN Field_from(FieldLen) ELSE nf

\* The BackTab arm: self.focused_field -= 1; if (focused_field as i8) < 0 { Field::from(len - 1) }
EditJob_retreat(f) ==
    LET nf == Field_from(f - 1) IN IF nf < 0 THEN Field_from(FieldLen - 1) ELSE nf

\* text_fields holds the twelve real fields (EditJob::create_fields).
EditJob_has_text_field(f) == f >= 0 /\ f <= 11

EditJob_handle_key_event_esc_home(ej, key) ==
    CASE key \in {"Tab", "Enter"} ->
           [s |-> [focused_field |-> EditJob_advance(ej.focused_field),
                   focused_updated |-> FALSE],
            sent |-> <<>>, panic |-> FALSE]
      [] key = "BackTab" ->
           [s |-> [focused_field |-> EditJob_retreat(ej.focused_field),
                   focused_updated |-> FALSE],
            sent |-> <<>>, panic |-> FALSE]
      [] key = "Esc" ->
           [s |-> ej, sent |-> <<ChangeMode("Home")>>, panic |-> FALSE]
      [] OTHER ->
           [s |-> ej, sent |-> <<>>,
            panic |-> ~EditJob_has_text_field(ej.focused_field)]

\* EditJob::handle_key_event
EditJob_handle_key_event(ej, key) ==
    CASE key \in {"Tab", "Enter"} ->
           [s |-> [focused_field |-> EditJob_advance(ej.focused_field),
                   focused_updated |-> FALSE],
            sent |-> <<>>, panic |-> FALSE]
      [] key = "BackTab" ->
           [s |-> [focused_field |-> EditJob_retreat(ej.focused_field),
                   focused_updated |-> FALSE],
            sent |-> <<>>, panic |-> FALSE]
      [] OTHER ->
           [s |-> ej, sent |-> <<>>,
            panic |-> ~EditJob_has_text_field(ej.focused_field)]

\* EditJob keeps the trait's handle_events, which hands a key event to handle_key_event.
EditJob_handle_events(ej, ev) ==
    IF ev.t = "Key" THEN EditJob_handle_key_event(ej, ev.k)
    ELSE [s |-> ej, sent |-> <<>>, panic |-> FALSE]

\* EditJob::update
EditJob_update(ej, action) ==
    CASE action.t = "Render" ->
           [s |-> [ej EXCEPT !.focused_updated = TRUE], sent |-> <<>>, panic |-> FALSE]
      [] OTHER -> [s |-> ej, sent |-> <<>>, panic |-> FALSE]

\* EditJob::draw
EditJob_draw(ej, frame_h) == [s |-> ej, sent |-> <<>>, panic |-> FALSE]

----------------------------------------------------------------------------
(* Dispatch over the registry (Box<dyn Component>).  cs = [jl, ej]. *)

Quiet(cs) == [cs |-> cs, sent |-> <<>>, panic |-> FALSE]

Component_handle_events(idx, cs, ev) ==
    CASE components[idx] = "JobList" ->
           LET r == JobList_handle_events(cs.jl, ev)
           IN [cs |-> [cs EXCEPT !.jl = r.s], sent |-> r.sent, panic |-> r.panic]
      [] components[idx] = "EditJob" ->
           LET r == EditJob_handle_events(cs.ej, ev)
           IN [cs |-> [cs EXCEPT !.ej = r.s], sent |-> r.sent, panic |-> r.panic]
      [] OTHER -> Quiet(cs)

Component_update(idx, cs, action) ==
    CASE components[idx] = "JobList" ->
           LET r == JobList_update(cs.jl, action)
           IN [cs |-> [cs EXCEPT !.jl = r.s], sent |-> r.sent, panic |-> r.panic]
      [] components[idx] = "EditJob" ->
           LET r == EditJob_update(cs.ej, action)
           IN [cs |-> [cs EXCEPT !.ej = r.s], sent |-> r.sent, panic |-> r.panic]
      [] OTHER -> Quiet(cs)

Component_draw(idx, cs, frame_h) ==
    CASE components[idx] = "JobList" ->
           LET r == JobList_draw(cs.jl, frame_h)
           IN [cs |-> [cs EXCEPT !.jl = r.s], sent |-> r.sent, panic |-> r.panic]
      [] components[idx] = "EditJob" ->
           LET r == EditJob_draw(cs.ej, frame_h)
           IN [cs |-> [cs EXCEPT !.ej = r.s], sent |-> r.sent, panic |-> r.panic]
      [] OTHER -> Quiet(cs)

\* One pass over a list of component indices.  acc = [cs, sent, log, panic]:
\* the components so far, the actions sent so far, the components visited so
\* far; a panic stops the pass.
Start(cs) == [cs |-> cs, sent |-> <<>>, log |-> <<>>, panic |-> FALSE]

Visit(acc, idx, r) ==
    [cs |-> r.cs, sent |-> acc.sent \o r.sent, log |-> Append(acc.log, idx),
     panic |-> r.panic]

\* for component in self.current_mode_components.iter() { component.handle_events(Some(event)) }
RECURSIVE ForwardEvent(_, _, _)
ForwardEvent(idxs, ev, acc) ==
    IF idxs = <<>> \/ acc.panic THEN acc
    ELSE ForwardEvent(Tail(idxs), ev,
                      Visit(acc, Head(idxs), Component_handle_events(Head(idxs), acc.cs, ev)))

\* for c in self.current_mode_components.iter_mut() { component.update(action.clone()) }
RECURSIVE ForwardAction(_, _, _)
ForwardAction(idxs, action, acc) ==
    IF idxs = <<>> \/ acc.panic THEN acc
    ELSE ForwardAction(Tail(idxs), action,
                       Visit(acc, Head(idxs), Component_update(Head(idxs), acc.cs, action)))

\* A draw that returned Err: App::render sends Action::Error with the message
\* and goes on with the next component.
DrawFailed(cs) == [cs |-> cs, sent |-> <<Act("Error")>>, panic |-> FALSE]

\* The components whose draw can return Err.  JobList::draw and EditJob::draw
\* return Ok(()) on every path; search::Home's draw is a trait method that
\* may fail.
FallibleDraws == {idx \in 1..Len(components) : components[idx] = "Home"}

RECURSIVE render_abort(_, _, _, _)
render_abort(idxs, frame_h, fails, acc) ==
    IF idxs = <<>> \/ acc.panic \/ (acc.log # <<>> /\ acc.log[Len(acc.log)] \in fails)
    THEN acc
    ELSE render_abort(Tail(idxs), frame_h, fails,
                      Visit(acc, Head(idxs),
                            IF Head(idxs) \in fails THEN DrawFailed(acc.cs)
                            ELSE Component_draw(Head(idxs), acc.cs, frame_h)))

\* App::render: for c in self.current_mode_components.iter_mut() { component.draw(frame, frame.area()) },
\* where the draws of the components in fails return Err.
RECURSIVE render(_, _, _, _)
render(idxs, frame_h, fails, acc) ==
    IF idxs = <<>> \/ acc.panic THEN acc
    ELSE render(Tail(idxs), frame_h, fails,
                Visit(acc, Head(idxs),
                      IF Head(idxs) \in fails THEN DrawFailed(acc.cs)
                      ELSE Component_draw(Head(idxs), acc.cs, frame_h)))

----------------------------------------------------------------------------
(* App. *)

App_handle_key_event_push_first(km, buf, key) ==
    LET pushed == Append(buf, key)
    IN IF KeymapGet(km, <<key>>) # None
       THEN [buf |-> pushed, sent |-> KeymapGet(km, <<key>>), how |-> "single"]
       ELSE [buf |-> pushed, sent |-> KeymapGet(km, pushed),
             how |-> IF KeymapGet(km, pushed) # None THEN "multi" ELSE "none"]

App_handle_key_event_chord_first(km, buf, key) ==
    LET pushed == Append(buf, key)
    IN IF Len(pushed) > 1 /\ KeymapGet(km, pushed) # None
       THEN [buf |-> pushed, sent |-> KeymapGet(km, pushed), how |-> "multi"]
       ELSE IF KeymapGet(km, <<key>>) # None
       THEN [buf |-> pushed, sent |-> KeymapGet(km, <<key>>), how |-> "single"]
       ELSE [buf |-> pushed, sent |-> None, how |-> "none"]

App_handle_key_event_clear_on_match(km, buf, key) ==
    IF KeymapGet(km, <<key>>) # None
    THEN [buf |-> buf, sent |-> KeymapGet(km, <<key>>), how |-> "single"]
    ELSE LET pushed == Append(buf, key)
         IN IF KeymapGet(km, pushed) # None
            THEN [buf |-> <<>>, sent |-> KeymapGet(km, pushed), how |-> "multi"]
            ELSE [buf |-> pushed, sent |-> None, how |-> "none"]

App_handle_key_event_unpush_on_match(km, buf, key) ==
    IF KeymapGet(km, <<key>>) # None
    THEN [buf |-> buf, sent |-> KeymapGet(km, <<key>>), how |-> "single"]
    ELSE LET pushed == Append(buf, key)
         IN IF KeymapGet(km, pushed) # None
            THEN [buf |-> buf, sent |-> KeymapGet(km, pushed), how |-> "multi"]
            ELSE [buf |-> pushed, sent |-> None, how |-> "none"]

App_handle_key_event_drop_unmatched(km, buf, key) ==
    IF KeymapGet(km, <<key>>) # None
    THEN [buf |-> buf, sent |-> KeymapGet(km, <<key>>), how |-> "single"]
    ELSE LET pushed == Append(buf, key)
         IN IF KeymapGet(km, pushed) # None
            THEN [buf |-> pushed, sent |-> KeymapGet(km, pushed), how |-> "multi"]
            ELSE [buf |-> buf, sent |-> None, how |-> "none"]

\* App::handle_key_event.  Result: the buffer afterwards, the action sent (if
\* any) and which lookup produced it.
App_handle_key_event(km, buf, key) ==
    IF KeymapGet(km, <<key>>) # None
    THEN [buf |-> buf, sent |-> KeymapGet(km, <<key>>), how |-> "single"]
    ELSE LET pushed == Append(buf, key)
         IN [buf |-> pushed, sent |-> KeymapGet(km, pushed),
             how |-> IF KeymapGet(km, pushed) # None THEN "multi" ELSE "none"]

\* The match over the event in App::handle_events: the actions it sends.
App_map_event(ev, key_sent) ==
    CASE ev.t = "Quit" -> <<Act("Quit")>>
      [] ev.t = "Tick" -> <<Act("Tick")>>
      [] ev.t = "Render" -> <<Act("Render")>>
      [] ev.t = "Resize" -> <<Resize(ev.n)>>
      [] ev.t = "Key" -> key_sent
      [] OTHER -> <<>>

EventTargets_follow_mode(cmc) ==
    IF cmc = ModeComponents("Home") THEN cmc \o ModeComponents("EditJob") ELSE cmc

EventTargets_all(cmc) == [i \in 1..Len(components) |-> i]

\* The components App::handle_events forwards the raw event to.
EventTargets(cmc) == cmc

\* History of EditJob's focus: start and n describe the current run of
\* consecutive advances (the focus before its first advance, and how many
\* there were); prev holds the last two key presses EditJob handled, each
\* with the focus it found.
NoFocusHist == [start |-> -1, n |-> 0, prev |-> <<>>]

FocusKey(key) ==
    CASE key \in {"Tab", "Enter"} -> "advance"
      [] key = "BackTab" -> "retreat"
      [] OTHER -> "input"

TrackFocus(h, key, before) ==
    LET kind == FocusKey(key)
        restart == h.n = 0 \/ h.n = MaxRun
        both == Append(h.prev, [kind |-> kind, before |-> before])
    IN [start |-> IF kind = "advance" THEN (IF restart THEN before ELSE h.start) ELSE -1,
        n |-> IF kind = "advance" THEN (IF restart THEN 1 ELSE h.n + 1) ELSE 0,
        prev |-> IF Len(both) > 2 THEN Tail(both) ELSE both]

\* App::handle_events, for the event the driver delivers; cap bounds the
\* buffer, and track says whether focus_hist follows EditJob's key presses.
HandleEventsWith(ev, cap, track) ==
    /\ pc = "events"
    /\ LET km == IF ev.t = "Key"
                 THEN App_handle_key_event(keybindings, last_tick_key_events, ev.k)
                 ELSE [buf |-> last_tick_key_events, sent |-> None, how |-> "none"]
           fwd == ForwardEvent(EventTargets(current_mode_components), ev,
                               Start([jl |-> job_list, ej |-> edit_job]))
       IN /\ Len(km.buf) <= cap
          /\ last_tick_key_events' = km.buf
          /\ queue' = Send(Send(queue, App_map_event(ev, km.sent)), fwd.sent)
          /\ job_list' = fwd.cs.jl
          /\ edit_job' = fwd.cs.ej
          /\ evt_log' = fwd.log
          /\ matched' = [key |-> ev.k, how |-> km.how, before |-> last_tick_key_events,
                         sent |-> km.sent]
          /\ fired' = IF km.how = "multi"
                       THEN fired \cup {Append(last_tick_key_events, ev.k)}
                       ELSE fired
          /\ focus_hist' = IF track /\ ev.t = "Key" /\ (\E i \in 1..Len(fwd.log) :
                                                          components[fwd.log[i]] = "EditJob")
                            THEN TrackFocus(focus_hist, ev.k, edit_job.focused_field)
                            ELSE focus_hist
          /\ pc' = IF fwd.panic THEN "panic" ELSE "actions"
    /\ last_event' = ev
    /\ UNCHANGED <<mode, current_mode_components, should_quit, should_suspend,
                   keybindings, term_h, last_change_mode, last_action, upd_log,
                   draw_log, draw_saw, draw_failed, suspend_seen>>

HandleEvents(ev, cap) == HandleEventsWith(ev, cap, FALSE)

HandleEventsTracked(ev, cap) == HandleEventsWith(ev, cap, TRUE)

App_tick_keep_first(buf) == IF buf = <<>> THEN <<>> ELSE <<Head(buf)>>

\* The Action::Tick arm: self.last_tick_key_events.drain(..)
App_tick(buf) == <<>>

App_change_mode_no_clear(cmc, new_mode) ==
    [mode |-> new_mode, cmc |-> cmc \o ModeComponents(new_mode)]

\* The Action::ChangeMode arm: the new mode and the recomputed index set.
App_change_mode(cmc, new_mode) ==
    [mode |-> new_mode, cmc |-> ModeComponents(new_mode)]

handle_job_search_twice == <<JobResults(NumTestJobs), JobResults(NumTestJobs)>>

handle_job_search_none == <<>>

\* App::handle_job_search: the action it sends.
handle_job_search == <<JobResults(NumTestJobs)>>

App_apply_resume_home(app, action) ==
    CASE action.t = "Tick" -> [app EXCEPT !.buf = <<>>]
      [] action.t = "Quit" -> [app EXCEPT !.should_quit = TRUE]
      [] action.t = "Suspend" -> [app EXCEPT !.should_suspend = TRUE]
      [] action.t = "Resume" ->
           [app EXCEPT !.should_suspend = FALSE, !.mode = "Home",
                       !.cmc = ModeComponents("Home")]
      [] action.t = "Resize" -> [app EXCEPT !.term_h = action.n]
      [] action.t = "ChangeMode" ->
           [app EXCEPT !.mode = action.m, !.cmc = ModeComponents(action.m)]
      [] OTHER -> app

App_apply_resume_keeps_flag(app, action) ==
    CASE action.t = "Tick" -> [app EXCEPT !.buf = <<>>]
      [] action.t = "Quit" -> [app EXCEPT !.should_quit = TRUE]
      [] action.t = "Suspend" -> [app EXCEPT !.should_suspend = TRUE]
      [] action.t = "Resize" -> [app EXCEPT !.term_h = action.n]
      [] action.t = "ChangeMode" ->
           [app EXCEPT !.mode = action.m, !.cmc = ModeComponents(action.m)]
      [] OTHER -> app

\* The match over the dequeued action in App::handle_actions, less the
\* drawing: app = [mode, cmc, should_quit, should_suspend, buf, term_h].
App_apply(app, action) ==
    CASE action.t = "Tick" -> [app EXCEPT !.buf = App_tick(app.buf)]
      [] action.t = "Quit" -> [app EXCEPT !.should_quit = TRUE]
      [] action.t = "Suspend" -> [app EXCEPT !.should_suspend = TRUE]
      [] action.t = "Resume" -> [app EXCEPT !.should_suspend = FALSE]
      [] action.t = "Resize" -> [app EXCEPT !.term_h = action.n]
      [] action.t = "ChangeMode" ->
           [app EXCEPT !.mode = App_change_mode(app.cmc, action.m).mode,
                       !.cmc = App_change_mode(app.cmc, action.m).cmc]
      [] OTHER -> app

UpdateTargets_stale(before, after) == before

\* The components the loop after the match hands the action to: those of
\* self.current_mode_components as the match left it.
UpdateTargets(before, after) == after

DrainOne_update_first(app, cs, action, fails) ==
    LET app1 == App_apply(app, action)
        renders == action.t \in {"Render", "Resize"}
        upd == ForwardAction(UpdateTargets(app.cmc, app1.cmc), action, Start(cs))
        drawn == IF renders /\ ~upd.panic
                 THEN render(app1.cmc, app1.term_h, fails, Start(upd.cs))
                 ELSE Start(upd.cs)
    IN [app |-> app1,
        cs |-> drawn.cs,
        loop_sent |-> IF action.t = "DispatchJobSearch" THEN handle_job_search ELSE <<>>,
        draw_sent |-> drawn.sent,
        upd_sent |-> upd.sent,
        draw_log |-> drawn.log,
        upd_log |-> upd.log,
        saw |-> IF renders THEN Some(upd.cs) ELSE None,
        failed |-> {drawn.log[i] : i \in 1..Len(drawn.log)} \cap fails,
        panic |-> drawn.panic \/ upd.panic]

\* The body of the while loop of App::handle_actions for one action: the
\* match (which renders at once for Render and Resize), then the update of
\* each visible component.  fails: the components whose draw returns Err.
DrainOne(app, cs, action, fails) ==
    LET app1 == App_apply(app, action)
        renders == action.t \in {"Render", "Resize"}
        drawn == IF renders
                 THEN render(app1.cmc, app1.term_h, fails, Start(cs))
                 ELSE Start(cs)
        upd == IF drawn.panic THEN drawn
               ELSE ForwardAction(UpdateTargets(app.cmc, app1.cmc), action, Start(drawn.cs))
    IN [app |-> app1,
        cs |-> upd.cs,
        loop_sent |-> IF action.t = "DispatchJobSearch" THEN handle_job_search ELSE <<>>,
        draw_sent |-> drawn.sent,
        upd_sent |-> IF drawn.panic THEN <<>> ELSE upd.sent,
        draw_log |-> IF renders THEN drawn.log ELSE <<>>,
        upd_log |-> IF drawn.panic THEN <<>> ELSE upd.log,
        saw |-> IF renders THEN Some(cs) ELSE None,
        failed |-> {drawn.log[i] : i \in 1..Len(drawn.log)} \cap fails,
        panic |-> drawn.panic \/ upd.panic]

\* One iteration of the while loop of App::handle_actions.
HandleActionWith(fails) ==
    /\ pc = "actions"
    /\ queue # <<>>
    /\ LET action == Head(queue)
           app == [mode |-> mode, cmc |-> current_mode_components,
                   should_quit |-> should_quit, should_suspend |-> should_suspend,
                   buf |-> last_tick_key_events, term_h |-> term_h]
       IN \E r \in {DrainOne(app, [jl |-> job_list, ej |-> edit_job], action, fails)} :
          /\ mode' = r.app.mode
          /\ current_mode_components' = r.app.cmc
          /\ should_quit' = r.app.should_quit
          /\ should_suspend' = r.app.should_suspend
          /\ last_tick_key_events' = r.app.buf
          /\ term_h' = r.app.term_h
          /\ job_list' = r.cs.jl
          /\ edit_job' = r.cs.ej
          /\ queue' = Send(Send(Send(Tail(queue), r.loop_sent), r.draw_sent), r.upd_sent)
          /\ last_action' = action
          /\ last_change_mode' = IF action.t = "ChangeMode" THEN action.m
                                 ELSE last_change_mode
          /\ draw_log' = r.draw_log
          /\ upd_log' = r.upd_log
          /\ draw_saw' = r.saw
          /\ draw_failed' = r.failed
          /\ fired' = IF action.t = "Tick" THEN {} ELSE fired
          /\ suspend_seen' = (suspend_seen \/ action.t = "Suspend")
          /\ pc' = IF r.panic THEN "panic" ELSE "actions"
    /\ UNCHANGED <<keybindings, last_event, evt_log, matched, focus_hist>>

\* Every draw returns Ok, as the draws of the registered components under src do.
HandleAction == HandleActionWith({})

\* The same iteration where a fallible draw may return Err.
HandleActionDraw == \E fails \in SUBSET FallibleDraws : HandleActionWith(fails)

\* The history of a cycle (the event consumed, the last action dequeued and
\* who was handed them) is kept until the cycle's drain has ended.
NoMatch == [key |-> "-", how |-> "none", before |-> <<>>, sent |-> None]

CycleEnds ==
    /\ last_event' = Ev("-")
    /\ evt_log' = <<>>
    /\ matched' = NoMatch
    /\ last_action' = Act("-")
    /\ upd_log' = <<>>
    /\ draw_log' = <<>>
    /\ draw_saw' = None
    /\ draw_failed' = {}

\* try_recv finds the queue empty and handle_actions returns; App::run then
\* tests should_suspend first.
RunSuspend ==
    /\ pc = "actions"
    /\ queue = <<>>
    /\ should_suspend
    /\ pc' = "suspended"
    /\ CycleEnds
    /\ UNCHANGED <<mode, current_mode_components, should_quit, should_suspend,
                   last_tick_key_events, queue, keybindings, term_h, job_list,
                   edit_job, last_change_mode, fired,
                   focus_hist>>
    /\ suspend_seen' = FALSE

RunResumed_swapped ==
    /\ pc = "suspended"
    /\ queue' = Send(Send(queue, <<Act("ClearScreen")>>), <<Act("Resume")>>)
    /\ pc' = "events"
    /\ UNCHANGED <<mode, current_mode_components, should_quit, should_suspend,
                   last_tick_key_events, keybindings, term_h, job_list,
                   edit_job, last_change_mode, last_event, evt_log, last_action,
                   upd_log, draw_log, matched, fired, draw_saw, draw_failed,
                   focus_hist, suspend_seen>>

\* tui.suspend() has returned: Resume and ClearScreen are sent and the loop goes round.
RunResumed ==
    /\ pc = "suspended"
    /\ queue' = Send(Send(queue, <<Act("Resume")>>), <<Act("ClearScreen")>>)
    /\ pc' = "events"
    /\ UNCHANGED <<mode, current_mode_components, should_quit, should_suspend,
                   last_tick_key_events, keybindings, term_h, job_list,
                   edit_job, last_change_mode, last_event, evt_log, last_action,
                   upd_log, draw_log, matched, fired, draw_saw, draw_failed,
                   focus_hist, suspend_seen>>

RunQuit_early ==
    /\ pc = "actions"
    /\ ~should_suspend
    /\ should_quit
    /\ pc' = "done"
    /\ CycleEnds
    /\ UNCHANGED <<mode, current_mode_components, should_quit, should_suspend,
                   last_tick_key_events, queue, keybindings, term_h, job_list,
                   edit_job, last_change_mode, fired, focus_hist, suspend_seen>>

\* else if self.should_quit { tui.stop(); break }
RunQuit ==
    /\ pc = "actions"
    /\ queue = <<>>
    /\ ~should_suspend
    /\ should_quit
    /\ pc' = "done"
    /\ CycleEnds
    /\ UNCHANGED <<mode, current_mode_components, should_quit, should_suspend,
                   last_tick_key_events, queue, keybindings, term_h, job_list,
                   edit_job, last_change_mode, fired, focus_hist, suspend_seen>>

RunLoop_early ==
    /\ pc = "actions"
    /\ ~should_suspend
    /\ ~should_quit
    /\ pc' = "events"
    /\ CycleEnds
    /\ UNCHANGED <<mode, current_mode_components, should_quit, should_suspend,
                   last_tick_key_events, queue, keybindings, term_h, job_list,
                   edit_job, last_change_mode, fired, focus_hist, suspend_seen>>

\* Neither flag is set: the loop goes round to handle_events.
RunLoop ==
    /\ pc = "actions"
    /\ queue = <<>>
    /\ ~should_suspend
    /\ ~should_quit
    /\ pc' = "events"
    /\ CycleEnds
    /\ UNCHANGED <<mode, current_mode_components, should_quit, should_suspend,
                   last_tick_key_events, queue, keybindings, term_h, job_list,
                   edit_job, last_change_mode, fired, focus_hist, suspend_seen>>

----------------------------------------------------------------------------
(* Specifications. *)

\* App::new followed by the wiring at the head of App::run, with keymap km;
\* at is the position of the run and jl the JobList component.
InitState(km, at, jl) ==
    /\ pc = at
    /\ mode = "Home"
    /\ current_mode_components = ModeComponents("Home")
    /\ should_quit = FALSE
    /\ should_suspend = FALSE
    /\ last_tick_key_events = <<>>
    /\ queue = <<>>
    /\ keybindings = km
    /\ term_h \in TermHeights
    /\ job_list = jl
    /\ edit_job = EditJob_new
    /\ last_change_mode = "Home"
    /\ last_event = Ev("-")
    /\ evt_log = <<>>
    /\ last_action = Act("-")
    /\ upd_log = <<>>
    /\ draw_log = <<>>
    /\ matched = NoMatch
    /\ fired = {}
    /\ draw_saw = None
    /\ draw_failed = {}
    /\ focus_hist = NoFocusHist
    /\ suspend_seen = FALSE

InitWith(km) == InitState(km, "events", JobList_new)

\* Events of the terminal driver other than key presses.
DriverEvents == {Ev("Quit"), Ev("Tick"), Ev("Render")} \cup {ResizeEv(h) : h \in TermHeights}

\* The program as built: the default key bindings, the keys its components
\* react to.  Nothing sends Action::Suspend under the default bindings, so
\* the should_suspend branch of App::run cannot be taken here; NextKeys has it.
Init == InitWith(DefaultKeyBindings)

Next ==
    \/ \E ev \in DriverEvents \cup {KeyEv(k) : k \in ComponentKeys} : HandleEvents(ev, MaxBuf)
    \/ HandleAction
    \/ RunQuit
    \/ RunLoop

Spec == Init /\ [][Next]_vars

\* The program as built where the drain loop of App::handle_actions, once
\* entered, keeps running: while let Ok(action) = self.action_rx.try_recv()
\* takes the next queued action without waiting for anything.
\* The keys that make a component send actions of its own: JobList sends
\* ChangeMode(EditJob) on Enter, and ChangeMode(Popup) with
\* DispatchNotesPopupData on Esc, so that passes start in every mode.
DrainKeys == {"Enter", "Esc"}

NextDrain ==
    \/ \E ev \in DriverEvents \cup {KeyEv(k) : k \in DrainKeys} : HandleEvents(ev, MaxFocusBuf)
    \/ HandleAction
    \/ RunQuit
    \/ RunLoop

SpecFair == Init /\ [][NextDrain]_vars /\ WF_vars(HandleAction)

\* The loop under a keymap that binds Suspend to a single key, where terminal
\* events keep arriving, the drain keeps running, tui.suspend() returns and
\* the tests after handle_actions are made.
QuitEvents == {Ev("Quit"), Ev("Tick"), Ev("Render"), KeyEv("c"), KeyEv("b")}

InitQuit == InitWith(ChordBindingsB)

AwaitQuit == \E ev \in QuitEvents : HandleEvents(ev, MaxFocusBuf)

NextQuit ==
    \/ AwaitQuit
    \/ HandleAction
    \/ RunSuspend
    \/ RunResumed
    \/ RunQuit
    \/ RunLoop

SpecQuit ==
    /\ InitQuit
    /\ [][NextQuit]_vars
    /\ WF_vars(AwaitQuit)
    /\ WF_vars(HandleAction)
    /\ WF_vars(RunSuspend)
    /\ WF_vars(RunResumed)
    /\ WF_vars(RunQuit)
    /\ WF_vars(RunLoop)

\* The loop where the terminal driver also delivers mouse events (Event::Mouse
\* of the inbound event stream), on a terminal that is resized between a height
\* that shows fewer rows than there are jobs and one that shows more.
TallHeight == 69

PointerRegions == {0, 2, 7, 8}

PointerLines == {0, 1, 7}

MouseEvents ==
    {MouseEv("ScrollUp", 0), MouseEv("ScrollDown", 0)} \cup
    {MouseEv("Moved", PointerAt(i, j, r)) :
         i \in PointerRegions, j \in 0..(ItemParts - 1), r \in PointerLines}

NextMouse ==
    \/ \E ev \in {Ev("Tick"), Ev("Render"), ResizeEv(TallHeight)} \cup
                  {ResizeEv(h) : h \in TermHeights} \cup MouseEvents :
          HandleEvents(ev, MaxBuf)
    \/ HandleAction
    \/ RunLoop

SpecMouse == Init /\ [][NextMouse]_vars

\* The loop under any of the keymaps, driven by the keys they bind.
InitKeys == \E km \in KeyMaps : InitWith(km)

NextKeys ==
    \/ \E ev \in DriverEvents \cup {KeyEv(k) : k \in ChordKeys} : HandleEvents(ev, MaxChordBuf)
    \/ HandleAction
    \/ RunSuspend
    \/ RunResumed
    \/ RunQuit
    \/ RunLoop

SpecKeys == InitKeys /\ [][NextKeys]_vars

\* The program as built, driven by the keys that move EditJob's focus (Enter
\* also opens EditJob from the job list) and by Ticks, with the focus followed
\* in focus_hist.
FocusKeys == {"Tab", "BackTab", "Enter"}

NextFocus ==
    \/ \E ev \in {Ev("Tick")} \cup {KeyEv(k) : k \in FocusKeys} :
          HandleEventsTracked(ev, MaxFocusBuf)
    \/ HandleAction
    \/ RunLoop

SpecFocus == Init /\ [][NextFocus]_vars

\* The program as built where a fallible draw may return Err at any render.
NextDraw ==
    \/ \E ev \in DriverEvents \cup {KeyEv("Enter")} : HandleEvents(ev, MaxBuf)
    \/ HandleActionDraw
    \/ RunQuit
    \/ RunLoop

SpecDraw == Init /\ [][NextDraw]_vars

\* The loop under a keymap that binds Enter, driven by keys that are bound
\* (Enter, Ctrl-q), handled by a component (Enter, Esc) or neither ("a").
InitEnter == InitWith(EnterBindings)

NextEnter ==
    \/ \E ev \in DriverEvents \cup {KeyEv(k) : k \in {"CtrlQ", "Enter", "Esc", "a"}} :
          HandleEvents(ev, MaxBuf)
    \/ HandleAction
    \/ RunQuit
    \/ RunLoop

SpecEnter == InitEnter /\ [][NextEnter]_vars

\* The loop under a keymap that lets the user ask for a new search ("r"),
\* driven by the keys that move JobList's row and sub-field focus.
RowKeys == {"Tab", "BackTab", "Up", "Down", "Left", "Right", "r"}

InitRows == InitWith(SearchBindings)

NextRows ==
    \/ \E ev \in {Ev("Tick"), Ev("Render")} \cup {KeyEv(k) : k \in RowKeys} :
          HandleEvents(ev, MaxRowBuf)
    \/ HandleAction
    \/ RunLoop

SpecRows == InitRows /\ [][NextRows]_vars

\* JobList::get_visible_jobs on its own: a JobList holding L jobs with row s
\* selected and an area of V rows of height 8, its window start as
\* get_visible_jobs computes it, and Up and Down given to its
\* handle_key_event, which recompute the window after every move.
WindowJobLists ==
    {[jobs |-> L, selected_index |-> s, visible_start_index |-> 0,
      focused_field |-> -1, area |-> Some(8 * V), notes_popup_visible |-> FALSE] :
        L \in 1..MaxJobs, s \in 0..(MaxJobs - 1), V \in 1..MaxVisible}

InitWindow ==
    \E jl \in WindowJobLists :
        /\ jl.selected_index < jl.jobs
        /\ InitState(DefaultKeyBindings, "window",
                     [jl EXCEPT !.visible_start_index = get_visible_jobs(jl, jl.area[1])])

WindowKey(k) ==
    /\ pc = "window"
    /\ job_list' = JobList_handle_key_event(job_list, k).s
    /\ last_event' = KeyEv(k)
    /\ UNCHANGED <<pc, mode, current_mode_components, should_quit, should_suspend,
                   last_tick_key_events, queue, keybindings, term_h, edit_job,
                   last_change_mode, evt_log, last_action, upd_log, draw_log,
                   matched, fired, draw_saw, draw_failed, focus_hist, suspend_seen>>

NextWindow == \E k \in {"Up", "Down"} : WindowKey(k)

SpecWindow == InitWindow /\ [][NextWindow]_vars

----------------------------------------------------------------------------
(* Properties. *)

Range(seq) == {seq[i] : i \in 1..Len(seq)}
NoDuplicates(seq) == Cardinality(Range(seq)) = Len(seq)
IsPrefix(a, b) == Len(a) <= Len(b) /\ SubSeq(b, 1, Len(a)) = a
Increasing(seq) == \A i \in 1..Len(seq) : \A j \in 1..Len(seq) : i < j => seq[i] < seq[j]

\* The registered components that own mode md.
Owners(md) == {idx \in 1..Len(components) : ComponentMode(idx) = md}

\* The step is App::handle_events consuming a key press.
KeyPressStep == pc = "events" /\ last_event'.t = "Key"

\* The step is the drain iteration that dequeues an action of type t.
Dequeues(t) == pc = "actions" /\ queue # <<>> /\ Head(queue).t = t

\* C1: in every reachable state current_mode_components holds, once each,
\* exactly the registered components whose mode() is the current mode, and
\* the current mode is the one carried by the last ChangeMode dequeued (Home
\* if there was none).
C1_VisibleSetMatchesMode ==
    /\ mode = last_change_mode
    /\ Range(current_mode_components) = Owners(mode)
    /\ NoDuplicates(current_mode_components)

\* C1 witness: a ChangeMode to EditJob has just been processed and the set is
\* the single EditJob component.
C1_Witness ==
    /\ last_action = ChangeMode("EditJob")
    /\ mode = "EditJob"
    /\ current_mode_components = <<3>>

\* C2: once an action has been dequeued and applied, update has been called
\* exactly once on each component that owns the mode current at that moment
\* (the new mode for a ChangeMode) and on no other; so ChangeMode(EditJob)
\* itself and every Tick dequeued in EditJob mode reach EditJob (index 3) and
\* no component that owns Home.
C2_UpdateReachesCurrentMode ==
    last_action.t # "-" =>
        /\ Range(upd_log) = Owners(mode)
        /\ NoDuplicates(upd_log)
        /\ (last_action = ChangeMode("EditJob") \/ (last_action.t = "Tick" /\ mode = "EditJob"))
               => (3 \in Range(upd_log) /\ Range(upd_log) \cap Owners("Home") = {})

\* C2 witness: the ChangeMode(EditJob) sent by JobList on Enter has been
\* dequeued in Home mode and was handed to EditJob alone.
C2_Witness ==
    /\ last_action = ChangeMode("EditJob")
    /\ last_event = KeyEv("Enter")
    /\ upd_log = <<3>>

\* C3: a drain iteration removes the head of the queue and leaves every other
\* queued action in place and in order, the actions emitted meanwhile behind
\* them; and the loop does not return to await an event while an action
\* emitted in the pass is still queued.
C3_Fifo ==
    [][/\ (pc = "actions" /\ queue # <<>>) => IsPrefix(Tail(queue), queue')
       /\ (pc = "actions" /\ pc' = "events") => queue' = <<>>]_vars

\* C3 witness: JobResults has just been dequeued while a DispatchJobSearch was
\* queued behind it; the DispatchJobSearch JobList emitted meanwhile sits
\* behind that one.
C3_Witness ==
    /\ pc = "actions"
    /\ last_action.t = "JobResults"
    /\ queue = <<Act("DispatchJobSearch"), Act("DispatchJobSearch")>>

\* C4: a step changes mode or current_mode_components only if it is the drain
\* iteration that dequeues a ChangeMode; every other action and every raw
\* event leaves both unchanged.
C4_OnlyChangeModeChangesMode ==
    [][(mode' # mode \/ current_mode_components' # current_mode_components)
           => Dequeues("ChangeMode")]_vars

\* C4 witness: a Suspend has been applied in EditJob mode, which is still the mode.
C4_Witness ==
    /\ last_action.t = "Suspend"
    /\ mode = "EditJob"
    /\ current_mode_components = <<3>>

\* C5: the visible set is in registration order, and event forwarding, update
\* dispatch and drawing each visit exactly the visible components in that order.
C5_RegistrationOrder ==
    [][/\ Increasing(current_mode_components')
       /\ pc = "events" /\ last_event'.t # "-" => evt_log' = current_mode_components
       /\ pc = "actions" /\ queue # <<>> => upd_log' = current_mode_components'
       /\ Dequeues("Render") \/ Dequeues("Resize") => draw_log' = current_mode_components']_vars

\* C5 witness: a ChangeMode(Home) has been processed; the set is Home then
\* JobList and update visited them in that order.
C5_Witness ==
    /\ last_action = ChangeMode("Home")
    /\ current_mode_components = <<1, 2>>
    /\ upd_log = <<1, 2>>

C7_SingleKeyPriority ==
    [][(KeyPressStep /\ <<last_event'.k>> \in DOMAIN keybindings) =>
           /\ last_tick_key_events' = last_tick_key_events
           /\ matched'.sent = <<keybindings[<<last_event'.k>>]>>
           /\ IsPrefix(Append(queue, keybindings[<<last_event'.k>>]), queue')]_vars

\* C7 witness: a single-key binding fired while the buffer held a partial sequence.
C7_Witness ==
    /\ matched.how = "single"
    /\ matched.before # <<>>
    /\ last_tick_key_events = matched.before

\* C8: a key press with no single-key binding is appended to the buffer; if
\* the whole buffer is then bound the matcher sends exactly that binding's
\* action; and the buffer loses keys only when a Tick is dequeued.
C8_MultiKeyMatch ==
    [][/\ (KeyPressStep /\ <<last_event'.k>> \notin DOMAIN keybindings) =>
              /\ last_tick_key_events' = Append(last_tick_key_events, last_event'.k)
              /\ last_tick_key_events' \in DOMAIN keybindings =>
                     /\ matched'.sent = <<keybindings[last_tick_key_events']>>
                     /\ IsPrefix(Append(queue, keybindings[last_tick_key_events']), queue')
       /\ ~IsPrefix(last_tick_key_events, last_tick_key_events') => Dequeues("Tick")]_vars

\* C8 witness: a chord matched, its action has been dequeued and applied, and
\* the buffer still holds the chord.
C8_Witness ==
    /\ matched.how = "multi"
    /\ last_action \in Range(matched.sent)
    /\ last_tick_key_events = Append(matched.before, matched.key)

\* C9: a key press that matches neither lookup appends exactly that key,
\* sends nothing and does not fail (the queue is left as it was: the plain
\* character keys pressed here draw no action from a component either).
C9_UnresolvableKey ==
    [][(/\ KeyPressStep
        /\ <<last_event'.k>> \notin DOMAIN keybindings
        /\ Append(last_tick_key_events, last_event'.k) \notin DOMAIN keybindings) =>
           /\ last_tick_key_events' = Append(last_tick_key_events, last_event'.k)
           /\ matched'.sent = None
           /\ queue' = queue
           /\ pc' = "actions"]_vars

\* C9 witness: an unbound key extended a non-empty buffer and nothing was sent.
C9_Witness ==
    /\ matched.key # "-"
    /\ matched.how = "none"
    /\ matched.before # <<>>
    /\ queue = <<>>
    /\ pc = "actions"

\* C10: dequeuing a Tick leaves the buffer empty whatever it held, and a key
\* pressed on an empty buffer is resolved by that key alone.
C10_TickClearsBuffer ==
    [][/\ Dequeues("Tick") => last_tick_key_events' = <<>>
       /\ (KeyPressStep /\ last_tick_key_events = <<>>) =>
              matched'.sent = KeymapGet(keybindings, <<last_event'.k>>)]_vars

\* C10 witness: a Tick arrived while the buffer held keys and has emptied it.
C10_Witness ==
    /\ last_event = Ev("Tick")
    /\ last_action = Act("Tick")
    /\ matched.before # <<>>
    /\ last_tick_key_events = <<>>

\* C11: once the binding of a multi-key sequence S has fired, no key press
\* before the next Tick is applied fires the binding of S again, and no key
\* press that changes the buffer makes it equal to S.
C11_NoRetriggerBeforeTick ==
    [][KeyPressStep =>
          /\ (matched'.how = "multi" =>
                 Append(last_tick_key_events, matched'.key) \notin fired)
          /\ (last_tick_key_events' # last_tick_key_events =>
                 last_tick_key_events' \notin fired)]_vars

\* C11 witness: a key was pressed while the buffer still held a sequence
\* whose binding had fired, and it went into the buffer behind it.
C11_Witness ==
    /\ matched.key # "-"
    /\ matched.before \in fired
    /\ last_tick_key_events = Append(matched.before, matched.key)

\* The last key press EditJob handled, as focus_hist recorded it.
LastFocusKey == focus_hist.prev[Len(focus_hist.prev)]

\* C12: after any sequence of advances (Tab, Enter) and retreats (Shift+BackTab)
\* EditJob's focused_field is one of the 12 real fields, never the None
\* sentinel; an advance from Notes (11) lands on Position (0) and a retreat
\* from Position lands on Notes.
C12_FocusInRange ==
    /\ edit_job.focused_field \in 0..(FieldLen - 1)
    /\ focus_hist.prev # <<>> =>
          /\ (LastFocusKey.kind = "advance" /\ LastFocusKey.before = FieldLen - 1 =>
                 edit_job.focused_field = 0)
          /\ (LastFocusKey.kind = "retreat" /\ LastFocusKey.before = 0 =>
                 edit_job.focused_field = FieldLen - 1)

\* C12 witness: EditJob has just handled an advance while Notes was focused.
C12_Witness ==
    /\ focus_hist.prev # <<>>
    /\ LastFocusKey.kind = "advance"
    /\ LastFocusKey.before = FieldLen - 1

\* C13: from any of the 12 fields, 12 consecutive advances bring
\* focused_field back to where the run started; 13 consecutive advances
\* starting at Position (0) end at PositionCategory (1).
C13_FocusCycle ==
    /\ (focus_hist.n = FieldLen /\ focus_hist.start \in 0..(FieldLen - 1) =>
          edit_job.focused_field = focus_hist.start)
    /\ (focus_hist.n = FieldLen + 1 /\ focus_hist.start = 0 =>
          edit_job.focused_field = 1)

\* C13 witness: EditJob has handled 13 consecutive advances that began at Position.
C13_Witness ==
    /\ focus_hist.n = FieldLen + 1
    /\ focus_hist.start = 0

\* C14: for each of the 12 real fields f, an advance handled while f is
\* focused, immediately followed by a retreat, leaves focused_field equal to f.
C14_AdvanceRetreatIdentity ==
    (/\ Len(focus_hist.prev) = 2
     /\ focus_hist.prev[1].kind = "advance"
     /\ focus_hist.prev[1].before \in 0..(FieldLen - 1)
     /\ focus_hist.prev[2].kind = "retreat")
    => edit_job.focused_field = focus_hist.prev[1].before

\* C14 witness: the advance was pressed on Notes, the last field, the retreat
\* came next, and Notes is focused again.
C14_Witness ==
    /\ Len(focus_hist.prev) = 2
    /\ focus_hist.prev[1] = [kind |-> "advance", before |-> FieldLen - 1]
    /\ focus_hist.prev[2].kind = "retreat"
    /\ edit_job.focused_field = FieldLen - 1

\* C15: a drain pass that ends with should_suspend set is followed by the
\* release of the terminal; on resumption Resume and then ClearScreen are
\* enqueued, adjacent and in that order, before the next event is awaited;
\* they are the first two actions the following drain pass dequeues, and
\* applying Resume clears should_suspend.
C15_SuspendLifecycle ==
    [][/\ (pc = "actions" /\ queue = <<>> /\ should_suspend => pc' = "suspended")
       /\ (pc = "suspended" =>
             /\ queue' = <<Act("Resume"), Act("ClearScreen")>>
             /\ pc' = "events")
       /\ (pc = "events" /\ should_suspend =>
             IsPrefix(<<Act("Resume"), Act("ClearScreen")>>, queue'))
       /\ (Dequeues("Resume") =>
             /\ last_action.t = "-"
             /\ Len(queue) >= 2
             /\ queue[2] = Act("ClearScreen")
             /\ ~should_suspend')
       /\ (Dequeues("ClearScreen") => last_action.t = "Resume")]_vars

\* C15 witness: after a suspension the next drain pass has dequeued Resume,
\* which cleared should_suspend, and ClearScreen is next in the queue.
C15_Witness ==
    /\ pc = "actions"
    /\ last_action.t = "Resume"
    /\ ~should_suspend
    /\ queue # <<>>
    /\ Head(queue) = Act("ClearScreen")

\* C16: once Quit has been dequeued the loop still applies every action left
\* in that drain pass, those emitted during it included, then tears down and
\* exits at the end of the same pass: it neither awaits another terminal
\* event nor suspends, whatever else the pass contained.
C16_CooperativeQuit ==
    [][/\ (should_quit => pc' \notin {"events", "suspended"})
       /\ (should_quit /\ pc = "actions" /\ queue # <<>> =>
             /\ pc' = "actions"
             /\ last_action' = Head(queue))
       /\ (should_quit /\ pc = "actions" /\ queue = <<>> => pc' = "done")
       /\ (pc' = "done" => should_quit /\ queue = <<>>)]_vars

\* C16 witness: Quit has been applied and the same pass has gone on to apply
\* an action that was emitted after it.
C16_Witness ==
    /\ should_quit
    /\ pc = "actions"
    /\ last_action.t \notin {"Quit", "-"}

\* The step dequeues an action that asks for a render.
DequeuesRender == Dequeues("Render") \/ Dequeues("Resize")

CountErrors(q) == Cardinality({i \in 1..Len(q) : q[i].t = "Error"})

\* C18: a draw that returns Err during a render is not fatal: one Error
\* action is enqueued for each failed draw, every visible component is still
\* drawn in that render, the drain pass goes on, and it does not end while an
\* Error action is still queued.
C18_DrawFailureNonFatal ==
    [][/\ (DequeuesRender =>
             /\ CountErrors(queue') = CountErrors(Tail(queue)) + Cardinality(draw_failed')
             /\ draw_log' = current_mode_components'
             /\ pc' = "actions")
       /\ (pc = "actions" /\ pc' # "actions" => CountErrors(queue) = 0)]_vars

\* C18 witness: Home's draw failed in a render that went on to draw JobList
\* (its area was unset before and is set now), and the Error action is queued.
C18_Witness ==
    /\ draw_failed = {1}
    /\ draw_log = <<1, 2>>
    /\ draw_saw # None
    /\ draw_saw[1].jl.area = None
    /\ job_list.area # None
    /\ CountErrors(queue) = 1

\* The Action variants a component's update names in a match arm of its own.
ExplicitlyHandled(idx) ==
    CASE components[idx] = "JobList" -> {"Tick", "Render", "JobResults", "NotesPopupData"}
      [] components[idx] = "EditJob" -> {"Render", "PopulateEditJobForm"}
      [] OTHER -> {}

\* What the loop itself sends when it applies the action at the head of the queue.
LoopSends == IF Head(queue).t = "DispatchJobSearch" THEN handle_job_search ELSE <<>>

\* C19: when update of JobList or EditJob is given an Action variant it has
\* no arm for, the component's state stays as it was and the component sends
\* (and returns) no action, whatever state it is in, JobList with no jobs
\* included.  (Resize is left out: it also draws, and JobList's draw stores
\* its area.)
C19_ExhaustiveDefault ==
    [][(/\ pc = "actions"
        /\ queue # <<>>
        /\ Head(queue).t # "Resize"
        /\ upd_log' # <<>>
        /\ \A i \in 1..Len(upd_log') : Head(queue).t \notin ExplicitlyHandled(upd_log'[i]))
       => /\ job_list' = job_list
          /\ edit_job' = edit_job
          /\ queue' = Tail(queue) \o LoopSends]_vars

\* C19 witness: JobList, holding no jobs, was given Quit, which its update
\* has no arm for, and a DispatchJobSearch it sent is in the queue.
C19_Witness ==
    /\ last_action.t = "Quit"
    /\ upd_log = <<1, 2>>
    /\ job_list.jobs = 0
    /\ queue = <<Act("DispatchJobSearch")>>

\* The action App::handle_events itself sends for the event it has consumed.
OwnActions(ev, m) ==
    CASE ev.t = "Quit" -> <<Act("Quit")>>
      [] ev.t = "Tick" -> <<Act("Tick")>>
      [] ev.t = "Render" -> <<Act("Render")>>
      [] ev.t = "Resize" -> <<Resize(ev.n)>>
      [] ev.t = "Key" -> m.sent
      [] OTHER -> <<>>

\* C20: every raw event the loop receives is handed, exactly once, to
\* handle_events of each component visible when it arrives and to no other
\* component, whether or not the matcher or the structural mapping made an
\* action of it; what the handlers send is queued behind the loop's own
\* action for the event.
C20_EventForwarding ==
    [][pc = "events" /\ pc' # "events" =>
          /\ evt_log' = current_mode_components
          /\ NoDuplicates(evt_log')
          /\ Range(evt_log') = Owners(mode)
          /\ IsPrefix(queue \o OwnActions(last_event', matched'), queue')]_vars

\* C20 witness: Enter, bound to Help, arrived in Home mode; Home and JobList
\* were each handed the raw key, and JobList's ChangeMode is queued behind
\* the matcher's Help.
C20_Witness ==
    /\ last_event = KeyEv("Enter")
    /\ matched.how = "single"
    /\ evt_log = <<1, 2>>
    /\ queue = <<Act("Help"), ChangeMode("EditJob")>>

\* The number of actions of type t in a queue.
CountOf(q, t) == Cardinality({i \in 1..Len(q) : q[i].t = t})

\* C21: every DispatchJobSearch the loop dequeues makes it enqueue exactly
\* one JobResults, which is dequeued before the drain pass ends; once JobList
\* has been given a JobResults its job list is the delivered one.
C21_SearchRequestResponse ==
    [][/\ (Dequeues("DispatchJobSearch") =>
             /\ CountOf(queue', "JobResults") = CountOf(Tail(queue), "JobResults") + 1
             /\ pc' = "actions")
       /\ (Dequeues("JobResults") /\ (\E i \in 1..Len(upd_log') : components[upd_log'[i]] = "JobList")
             => job_list'.jobs = Head(queue).n)
       /\ (pc = "actions" /\ pc' \notin {"actions", "panic"} => CountOf(queue, "JobResults") = 0)]_vars

\* C21 witness: JobList has just been given the JobResults that answered a
\* DispatchJobSearch and holds the delivered jobs.
C21_Witness ==
    /\ last_action = JobResults(NumTestJobs)
    /\ upd_log = <<1, 2>>
    /\ job_list.jobs = NumTestJobs

\* JobList was handed the action dequeued last.
JobListUpdated == \E i \in 1..Len(upd_log) : components[upd_log[i]] = "JobList"

JobListKey(k) ==
    /\ pc = "events"
    /\ last_event' = KeyEv(k)
    /\ \E i \in 1..Len(current_mode_components) :
          components[current_mode_components[i]] = "JobList"

C24_SubFieldCyclic ==
    [][/\ (JobListKey("Right") =>
             job_list'.focused_field = (job_list.focused_field + 1) % NumSubFields)
       /\ (JobListKey("Left") /\ job_list.focused_field >= 0 =>
             job_list'.focused_field =
                 (job_list.focused_field + NumSubFields - 1) % NumSubFields)
       /\ (JobListKey("Left") \/ JobListKey("Right") =>
             job_list'.focused_field \in 0..(NumSubFields - 1))]_vars

\* C24 witness: Right has been pressed and CV, the last sub-field but one, is focused.
C24_Witness ==
    /\ last_event = KeyEv("Right")
    /\ job_list.focused_field = NumSubFields - 2

\* The rows the stored area shows: area.height / 8.
VisibleRows == job_list.area[1] \div 8

\* C25: for every job count L, visible-row count V >= 1 and selected row
\* s < L, the window start that get_visible_jobs returns is 0 when L <= V,
\* leaves the window inside the list (start + V <= L) when L > V, and keeps
\* the selected row inside the window (start <= s < start + V).
C25_WindowClamped ==
    (pc = "window" /\ VisibleRows >= 1 /\ job_list.selected_index < job_list.jobs) =>
        LET start == job_list.visible_start_index
        IN /\ start = get_visible_jobs(job_list, job_list.area[1])
           /\ (job_list.jobs <= VisibleRows => start = 0)
           /\ (job_list.jobs > VisibleRows => start + VisibleRows <= job_list.jobs)
           /\ start <= job_list.selected_index
           /\ job_list.selected_index < start + VisibleRows

\* C25 witness: Down has selected the last of more rows than are visible and
\* the window, recomputed, ends with the list.
C25_Witness ==
    /\ pc = "window"
    /\ last_event = KeyEv("Down")
    /\ VisibleRows >= 2
    /\ job_list.jobs > VisibleRows
    /\ job_list.selected_index = job_list.jobs - 1
    /\ job_list.visible_start_index = job_list.jobs - VisibleRows

\* C26: when there are more jobs than visible rows, at least two rows are
\* visible and the window is clamped at neither end, get_visible_jobs puts
\* the selected row at the centre of the window: s - start is floor(V/2) or
\* floor((V-1)/2).
C26_WindowCentred ==
    (/\ pc = "window"
     /\ VisibleRows >= 2
     /\ job_list.jobs > VisibleRows
     /\ job_list.selected_index < job_list.jobs
     /\ job_list.visible_start_index > 0
     /\ job_list.visible_start_index < job_list.jobs - VisibleRows)
    => job_list.selected_index - job_list.visible_start_index
           \in {VisibleRows \div 2, (VisibleRows - 1) \div 2}

\* C26 witness: three rows are visible (the default terminal), the window
\* was recomputed after a move and touches neither end of the list.
C26_Witness ==
    /\ pc = "window"
    /\ last_event.t = "Key"
    /\ VisibleRows = 3
    /\ job_list.visible_start_index > 0
    /\ job_list.visible_start_index < job_list.jobs - VisibleRows

\* C27: every drain pass terminates: whenever actions are queued for the
\* drain, finitely many dequeues later the queue is empty, although JobList
\* sends DispatchJobSearch for every action it is given while it holds no
\* jobs and the loop answers each with a JobResults.
C27_DrainTerminates ==
    (pc = "actions" /\ queue # <<>>) ~> (pc = "actions" /\ queue = <<>>)

\* C27 witness: the pass of the first Tick is over; it ended with the last
\* of the JobResults that answered JobList's repeated requests.
C27_Witness ==
    /\ pc = "actions"
    /\ queue = <<>>
    /\ last_event = Ev("Tick")
    /\ last_action.t = "JobResults"
    /\ job_list.jobs = NumTestJobs

\* The bound sequences of more than one key that contain a key with a
\* binding of its own.
Shadowed(km) ==
    {s \in DOMAIN km : Len(s) > 1 /\ \E i \in 1..Len(s) : <<s[i]>> \in DOMAIN km}

\* C28: shadowed chords never fire: a key with a single-key binding is never
\* in the buffer, every press of it yields its own action, and no bound
\* sequence that contains such a key is ever matched, whatever keys and
\* Ticks came before.
C28_ShadowedChordsNeverFire ==
    /\ \A k \in ChordKeys :
          <<k>> \in DOMAIN keybindings =>
              /\ k \notin Range(last_tick_key_events)
              /\ matched.key = k =>
                     /\ matched.how = "single"
                     /\ matched.sent = Some(keybindings[<<k>>])
    /\ \A s \in Shadowed(keybindings) :
          /\ s \notin fired
          /\ ~(matched.how = "multi" /\ Append(matched.before, matched.key) = s)

\* C28 witness: with [a] -> Help and [a, b] -> Quit bound, a was pressed and
\* yielded Help while other keys were buffered.
C28_Witness ==
    /\ Shadowed(keybindings) # {}
    /\ matched.key = "a"
    /\ matched.sent = Some(Act("Help"))
    /\ matched.before = <<"b", "c">>
    /\ pc = "actions"

\* C29: the key event that causes a mode change is never delivered to the
\* components of the new mode: a key that arrives in Home mode is handed to
\* no EditJob handler and leaves EditJob as it was, the mode and the visible
\* set do not change while the event is handled, no handle_events call is
\* made during the drain, and dequeuing the ChangeMode itself moves no
\* component's focus.
C29_ModeChangeKeyNotRedelivered ==
    [][/\ KeyPressStep =>
              /\ mode' = mode
              /\ current_mode_components' = current_mode_components
              /\ Range(evt_log') \subseteq Owners(mode)
       /\ (KeyPressStep /\ mode = "Home") => edit_job' = edit_job
       /\ (pc = "actions" /\ queue # <<>>) => evt_log' = evt_log
       /\ Dequeues("ChangeMode") => (edit_job' = edit_job /\ job_list' = job_list)]_vars

\* C29 witness: Enter arrived in Home mode, was handed to Home and JobList,
\* and the ChangeMode(EditJob) JobList sent has been applied; EditJob, now
\* visible, still has its first field in focus.
C29_Witness ==
    /\ last_event = KeyEv("Enter")
    /\ evt_log = <<1, 2>>
    /\ last_action = ChangeMode("EditJob")
    /\ current_mode_components = <<3>>
    /\ edit_job = EditJob_new

\* C30: when the loop goes to await a terminal event the queue is empty and
\* the suspend flag clear, except on the way back from a suspension, when the
\* queue is exactly Resume, ClearScreen and the flag is still set; handling
\* the awaited event only appends to the queue and leaves the flag alone, so
\* the pair is applied after the event has arrived; and the terminal is
\* released only if a Suspend has been dequeued since the last release.
C30_AwaitAfterSuspend ==
    [][/\ (pc # "events" /\ pc' = "events") =>
              /\ queue' = IF pc = "suspended"
                          THEN <<Act("Resume"), Act("ClearScreen")>> ELSE <<>>
              /\ should_suspend' = (pc = "suspended")
       /\ pc = "events" =>
              /\ IsPrefix(queue, queue')
              /\ should_suspend' = should_suspend
       /\ pc' = "suspended" => (suspend_seen /\ ~suspend_seen')]_vars

\* C30 witness: a Suspend was applied, the terminal was released and taken
\* back, and the loop awaits an event with Resume, ClearScreen queued and the
\* flag still set.
C30_Witness ==
    /\ pc = "events"
    /\ should_suspend
    /\ ~suspend_seen
    /\ queue = <<Act("Resume"), Act("ClearScreen")>>

\* C31: the quit flag is monotone and quit is eventually honoured: no step
\* clears should_quit, and once it is set the loop reaches its exit, under a
\* keymap where Suspend is one key press away and suspensions happen before
\* and around the Quit.
C31_QuitHonoured ==
    /\ [][should_quit => should_quit']_vars
    /\ should_quit ~> (pc = "done")

\* C31 witness: the loop has exited with the quit flag set and no suspension pending.
C31_Witness ==
    /\ pc = "done"
    /\ should_quit
    /\ ~should_suspend
    /\ keybindings = ChordBindingsB

\* C32: EditJob key handling never fails: in every reachable state
\* focused_field has an entry in text_fields, and no key handed to a
\* component makes it unwrap a missing text area.
C32_KeyHandlingNeverFails ==
    /\ EditJob_has_text_field(edit_job.focused_field)
    /\ pc # "panic"

\* C32 witness: EditJob, alone visible, was handed a key that is neither Tab,
\* BackTab nor Enter and gave it to the focused text area.
C32_Witness ==
    /\ last_event \in {KeyEv("a"), KeyEv("CtrlQ")}
    /\ evt_log = <<3>>
    /\ pc = "actions"
    /\ EditJob_has_text_field(edit_job.focused_field)

\* C33: EditJob mode is absorbing: under the default key bindings no step
\* taken while the mode is EditJob changes the mode or the visible set, and
\* no ChangeMode is ever queued while the mode is EditJob.
C33_EditJobAbsorbing ==
    [][mode = "EditJob" =>
          /\ mode' = "EditJob"
          /\ current_mode_components' = current_mode_components
          /\ CountOf(queue', "ChangeMode") = 0]_vars

\* C33 witness: Esc, which leaves the job list, was pressed in EditJob mode
\* and its pass is over; the mode is still EditJob.
C33_Witness ==
    /\ mode = "EditJob"
    /\ last_event = KeyEv("Esc")
    /\ evt_log = <<3>>
    /\ pc = "actions"
    /\ queue = <<>>

\* C34: popup hand-off: the DispatchNotesPopupData JobList queues behind
\* ChangeMode(Popup) on Esc is handed to the update of a component that owns
\* the popup mode and not to JobList; an Esc that arrives in popup mode is
\* handed to that component; and a NotesPopupData is handed to JobList in
\* Home mode.
C34_PopupHandOff ==
    /\ last_action.t = "DispatchNotesPopupData" =>
           /\ upd_log # <<>>
           /\ Range(upd_log) = Owners("Popup")
           /\ 2 \notin Range(upd_log)
    /\ (pc = "actions" /\ last_event = KeyEv("Esc") /\ last_action.t = "-"
            /\ mode = "Popup") =>
           (evt_log # <<>> /\ Range(evt_log) = Owners("Popup"))
    /\ last_action.t = "NotesPopupData" => (mode = "Home" /\ 2 \in Range(upd_log))

\* C34 witness: Esc was pressed on the job list, the mode is the popup's and
\* the DispatchNotesPopupData queued behind the ChangeMode has been dequeued.
C34_Witness ==
    /\ last_event = KeyEv("Esc")
    /\ evt_log = <<1, 2>>
    /\ mode = "Popup"
    /\ last_action.t = "DispatchNotesPopupData"

\* C35: JobList requests data once: the DispatchJobSearch of a pass is the
\* only one (when it is dequeued none is queued or sent behind it, and its
\* answer is the only JobResults queued), dequeuing the JobResults leaves
\* neither a request nor an answer behind, and no step taken while the job
\* list is non-empty adds a DispatchJobSearch to the queue.
C35_RequestsOnce ==
    [][/\ Dequeues("DispatchJobSearch") =>
              /\ CountOf(queue', "DispatchJobSearch") = 0
              /\ CountOf(queue', "JobResults") = 1
       /\ Dequeues("JobResults") =>
              /\ CountOf(queue', "DispatchJobSearch") = 0
              /\ CountOf(queue', "JobResults") = 0
       /\ (pc = "actions" /\ job_list.jobs > 0) =>
              CountOf(queue', "DispatchJobSearch") <= CountOf(queue, "DispatchJobSearch")]_vars

\* C35 witness: in the first pass, with the job list still empty, the first
\* DispatchJobSearch has been dequeued and its JobResults is queued.
C35_Witness ==
    /\ pc = "actions"
    /\ job_list.jobs = 0
    /\ last_action.t = "DispatchJobSearch"
    /\ CountOf(queue, "JobResults") = 1

\* C36: once a draw has stored the area, after every Tab, BackTab, Up or
\* Down handled by JobList the selected row lies inside the drawn window:
\* visible_start_index <= selected_index < visible_start_index + V.
C36_SelectedInWindow ==
    (/\ last_event.t = "Key"
     /\ last_event.k \in {"Tab", "BackTab", "Up", "Down"}
     /\ 2 \in Range(evt_log)
     /\ job_list.area # None
     /\ job_list.jobs > 0) =>
        /\ job_list.visible_start_index <= job_list.selected_index
        /\ job_list.selected_index < job_list.visible_start_index + VisibleRows

\* C36 witness: with the area stored, Down moved the selection past the
\* first window and the window start followed it.
C36_Witness ==
    /\ last_event = KeyEv("Down")
    /\ 2 \in Range(evt_log)
    /\ job_list.area # None
    /\ job_list.visible_start_index > 0
    /\ job_list.visible_start_index <= job_list.selected_index
    /\ job_list.selected_index < job_list.visible_start_index + VisibleRows

C38_DrawShowsFocus ==
    (draw_saw # None /\ 3 \in Range(draw_log)) => draw_saw[1].ej.focused_updated

\* C38 witness: EditJob was drawn from a state in which the styling had
\* already been brought up to date with the focus.
C38_Witness ==
    /\ draw_saw # None
    /\ 3 \in Range(draw_log)
    /\ draw_saw[1].ej.focused_updated
    /\ last_action.t = "Render"

====
